---- MODULE Spec2Model ----
(***************************************************************************)
(* Model of the device aggregation store of shino_wifi_ble_scanner:        *)
(* scanners.py (_normalize_mac, _vendor_for, DeviceRecord, DeviceStore)    *)
(* and its consumer app.py (api_devices).                                  *)
(*                                                                         *)
(* Python values are encoded as follows.                                   *)
(*   - a str is a sequence of one-character strings;                       *)
(*   - an Optional value is a sequence of length at most one: None is <<>> *)
(*     and a present value v is <<v>>;                                     *)
(*   - a signal strength passed to update is carried in tenths of a dBm,   *)
(*     so that int(rssi) has fractional inputs to truncate; values stored  *)
(*     in a record are whole dBm.                                          *)
(***************************************************************************)
EXTENDS Integers, Sequences, FiniteSets, TLC

----------------------------------------------------------------------------
(* Optional values *)

None == <<>>

Some(v) == <<v>>

\* Python truthiness of an Optional[str] whose text is a TLA+ string.
Truthy(o) == o # None /\ o[1] # ""

\* Python's `a or b` on Optional values.
Or(a, b) == IF Truthy(a) THEN a ELSE b

----------------------------------------------------------------------------
(* str operations used by _normalize_mac and _vendor_for *)

LowerChars == <<"a", "b", "c", "d", "e", "f", "g", "h", "i", "j", "k", "l", "m",
                "n", "o", "p", "q", "r", "s", "t", "u", "v", "w", "x", "y", "z">>

UpperChars == <<"A", "B", "C", "D", "E", "F", "G", "H", "I", "J", "K", "L", "M",
                "N", "O", "P", "Q", "R", "S", "T", "U", "V", "W", "X", "Y", "Z">>

Whitespace == {" ", "\t", "\n", "\r"}

\* str.upper() on one character.
UpperChar(c) ==
    IF \E i \in 1..Len(LowerChars) : LowerChars[i] = c
    THEN UpperChars[CHOOSE i \in 1..Len(LowerChars) : LowerChars[i] = c]
    ELSE c

\* str.upper()
Upper(s) == [i \in 1..Len(s) |-> UpperChar(s[i])]

\* str.strip(): drops leading and trailing whitespace.
Strip(s) ==
    LET keep == {i \in 1..Len(s) : s[i] \notin Whitespace}
    IN  IF keep = {} THEN <<>>
        ELSE LET lo == CHOOSE i \in keep : \A j \in keep : i <= j
                 hi == CHOOSE i \in keep : \A j \in keep : j <= i
             IN  SubSeq(s, lo, hi)

\* str.replace(old, new) for one-character old and new.
Replace(s, old, new) == [i \in 1..Len(s) |-> IF s[i] = old THEN new ELSE s[i]]

\* `c in s`
Contains(s, c) == \E i \in 1..Len(s) : s[i] = c

\* sep.join(parts) for a one-character sep.
RECURSIVE Join(_, _)
Join(parts, sep) ==
    IF parts = <<>> THEN <<>>
    ELSE IF Len(parts) = 1 THEN parts[1]
    ELSE parts[1] \o <<sep>> \o Join(Tail(parts), sep)

\* s.split(sep) for a one-character sep: always at least one part.
RECURSIVE Split(_, _)
Split(s, sep) ==
    IF ~Contains(s, sep) THEN <<s>>
    ELSE LET k == CHOOSE i \in 1..Len(s) :
                      s[i] = sep /\ \A j \in 1..(i - 1) : s[j] # sep
         IN  <<SubSeq(s, 1, k - 1)>> \o Split(SubSeq(s, k + 1, Len(s)), sep)

\* parts[:n]
Take(parts, n) == SubSeq(parts, 1, IF Len(parts) < n THEN Len(parts) ELSE n)

\* [mac[i:i+2] for i in range(0, 12, 2)]
Pairs(mac) == [k \in 1..6 |-> SubSeq(mac, 2 * k - 1, 2 * k)]

\* _normalize_mac with the upper-casing forgotten.
NormalizeMacNoUpper(mac) ==
    LET m == Replace(Strip(IF mac = None THEN <<>> ELSE mac[1]), "-", ":")
    IN  IF ~Contains(m, ":") /\ Len(m) = 12 THEN Join(Pairs(m), ":") ELSE m

\* _normalize_mac with the whitespace stripped last, after the length was looked at.
NormalizeMacStripLast(mac) ==
    LET m == Replace(Upper(IF mac = None THEN <<>> ELSE mac[1]), "-", ":")
    IN  Strip(IF ~Contains(m, ":") /\ Len(m) = 12 THEN Join(Pairs(m), ":") ELSE m)

\* _normalize_mac(mac): mac is an Optional[str].
_normalize_mac(mac) ==
    LET m == Replace(Upper(Strip(IF mac = None THEN <<>> ELSE mac[1])), "-", ":")
    IN  IF ~Contains(m, ":") /\ Len(m) = 12 THEN Join(Pairs(m), ":") ELSE m

\* prefix = ":".join(mac.split(":")[:3])
VendorPrefix(mac) == Join(Take(Split(mac, ":"), 3), ":")

\* int(rssi) rounding down instead of toward zero.
IntFloor(rssi10) == rssi10 \div 10

\* int(rssi) for a signal given in tenths of a dBm: truncation toward zero.
IntOf(rssi10) == IF rssi10 >= 0 THEN rssi10 \div 10 ELSE -((-rssi10) \div 10)

----------------------------------------------------------------------------
(* Bounds of the model and the inputs drawn by the callers *)

\* DeviceStore(history_len=...): the capacity the modelled store is built with.
HistoryLen == 2

\* Number of update calls issued over a run with mixed arguments.
MaxUpdates == 2

\* Number of update calls issued over a run that streams sightings of one device.
MaxSamples == 3

\* Number of /api/devices requests served over a run.
MaxSnapshots == 1

\* Largest value time.time() returns over a streaming run.
MaxTime == 1

\* Threads of the process: the two scanner workers and the Flask request thread.
Scanners == {"WiFiScanner", "BLEScanner"}

Readers == {"Flask"}

Threads == Scanners \cup Readers

NoThread == "nobody"

\* "AA:BB:CC:11:22:33"
MacColon == <<"A", "A", ":", "B", "B", ":", "C", "C", ":",
              "1", "1", ":", "2", "2", ":", "3", "3">>

\* "aabbcc112233"
MacPlain == <<"a", "a", "b", "b", "c", "c", "1", "1", "2", "2", "3", "3">>

\* " aa-bb-cc-11-22-33 "
MacHyphen == <<" ", "a", "a", "-", "b", "b", "-", "c", "c", "-",
               "1", "1", "-", "2", "2", "-", "3", "3", " ">>

\* "AA:BB:CC:44:55:66": another device of the same vendor prefix
MacOther == <<"A", "A", ":", "B", "B", ":", "C", "C", ":",
              "4", "4", ":", "5", "5", ":", "6", "6">>

\* "  "
MacBlank == <<" ", " ">>

\* Raw addresses handed to update: Optional[str].
RawMacs == {None, Some(<<>>), Some(MacBlank), Some(MacColon), Some(MacPlain),
            Some(MacHyphen), Some(MacOther)}

\* The raw addresses of a streaming run: one device in two spellings, or none.
StreamMacs == {None, Some(MacColon), Some(MacPlain)}

\* mac = _normalize_mac(mac) for each raw address of the model, worked out once.
Normalized == [raw \in RawMacs \cup StreamMacs |-> _normalize_mac(raw)]

\* The addresses update can store, and for each what _vendor_for makes of it:
\* mac = _normalize_mac(mac), then prefix = ":".join(mac.split(":")[:3]).
StoredMacs == {Normalized[raw] : raw \in RawMacs \cup StreamMacs}

VendorMac == [mac \in StoredMacs |-> _normalize_mac(Some(mac))]

VendorKey == [mac \in StoredMacs |-> VendorPrefix(VendorMac[mac])]

\* dev_type as each worker passes it: "wifi" at line 161, "ble" at line 199.
CallSiteType(t) == IF t = "WiFiScanner" THEN "wifi" ELSE "ble"

Names == {None, Some("Tag")}

Ssids == {None, Some("Cafe")}

\* The ssid keyword is only meaningful to a wifi update; the ble worker omits it.
CallSiteSsids(t) == IF t = "WiFiScanner" THEN Ssids ELSE {None}

\* Signals handed to update, in tenths of a dBm: -40 and -45.5 dBm.
Signals == {None, Some(-400), Some(-455)}

\* What _mac_lookup.lookup(mac) can give back when it returns.
Vendors == {"Acme"}

\* The arguments update is called with, per kind of run. A "mixed" run calls it
\* a few times with every shape of argument; a "stream" run calls it more often
\* with well-formed sightings of one device, while the clock moves; a "brief"
\* run calls it a few times with one sighting of either device, or with no
\* address.
Workload(kind, t) ==
    CASE kind = "stream" ->
             [calls |-> MaxSamples, raws |-> StreamMacs, names |-> {Some("Tag")},
              signals |-> Signals \ {None}, ssids |-> {None}]
      [] kind = "brief" ->
             [calls |-> MaxUpdates, raws |-> {None, Some(MacColon), Some(MacOther)},
              names |-> {Some("Tag")}, signals |-> {Some(-400)}, ssids |-> {None}]
      [] OTHER ->
             [calls |-> MaxUpdates, raws |-> RawMacs, names |-> Names,
              signals |-> Signals, ssids |-> CallSiteSsids(t)]

----------------------------------------------------------------------------
(* State *)

VARIABLES
    run,             \* the kind of run: "mixed", "stream" or "brief" (never changes)
    _mac_lookup,     \* TRUE iff the import of MacLookup succeeded
    _vendor_lock,    \* owner of _vendor_lock, or NoThread
    _vendor_cache,   \* dict: prefix -> vendor
    _lock,           \* owner of DeviceStore._lock, or NoThread
    _records,        \* DeviceStore._records: the records in dict (insertion) order
    _history_len,    \* DeviceStore._history_len
    now,             \* the value time.time() returned last
    pc,              \* per thread: where it is
    frame,           \* per thread: the locals of the update call it is in
    out,             \* per reader: the list snapshot() returned last
    response,        \* per reader: what api_devices answered last
    raised,          \* per scanner: the last exception an update call of its raised
    nUpdates,        \* update calls issued so far
    nSnapshots,      \* /api/devices requests issued so far
    accepted,        \* history variable: mac -> every sample appended, in order
    lookups,         \* history variable: prefix -> number of backend lookups issued
    created,         \* history variable: mac -> number of DeviceRecords constructed
    text,            \* the Optional[str] a caller hands to _normalize_mac
    normal           \* what _normalize_mac returned for it, and then for each result

vars == <<run, _mac_lookup, _vendor_lock, _vendor_cache, _lock, _records, _history_len,
          now, pc, frame, out, response, raised, nUpdates, nSnapshots,
          accepted, lookups, created, text, normal>>

NoFrame == [dev_type |-> "", mac |-> <<>>, name |-> None, rssi |-> None,
            ssid |-> None, raw |-> None, found |-> FALSE]

EmptyDict == [k \in {} |-> k]

\* d[k] = v on a dict
DictPut(d, k, v) == [x \in DOMAIN d \cup {k} |-> IF x = k THEN v ELSE d[x]]

\* d.get(k, default)
DictGet(d, k, default) == IF k \in DOMAIN d THEN d[k] ELSE default

----------------------------------------------------------------------------
(* DeviceRecord and the dict of records *)

\* DeviceRecord(type=dev_type, mac=mac), with history = deque(maxlen=history_len)
DeviceRecord(dev_type, mac, t) ==
    [type |-> dev_type, mac |-> mac, name |-> None, ssid |-> None, vendor |-> None,
     rssi |-> None, last_seen |-> t, history |-> <<>>]

\* Whether self._records has the key.
HasRecord(recs, mac) == \E i \in 1..Len(recs) : recs[i].mac = mac

\* self._records[mac] for a key that is present.
RecordOf(recs, mac) == recs[CHOOSE i \in 1..Len(recs) : recs[i].mac = mac]

\* self._records[mac] = rec: a new key goes last, an old key keeps its place.
PutRecord(recs, mac, rec) ==
    IF HasRecord(recs, mac)
    THEN [i \in 1..Len(recs) |-> IF recs[i].mac = mac THEN rec ELSE recs[i]]
    ELSE Append(recs, rec)

\* deque.append on a deque(maxlen=n) that drops the new sample when full.
DequeAppendKeepOldest(h, x, maxlen) ==
    IF Len(h) >= maxlen THEN h ELSE Append(h, x)

\* deque.append on a deque(maxlen=n): when full, the oldest sample is discarded.
DequeAppend(h, x, maxlen) ==
    IF maxlen = 0 THEN <<>>
    ELSE IF Len(h) = maxlen THEN Append(Tail(h), x)
    ELSE Append(h, x)

----------------------------------------------------------------------------
(* DeviceStore.snapshot *)

\* The value the sort key uses for a record without a signal.
NoSignal == -9999

\* The dict snapshot would build with "history": rec.history, the deque itself:
\* the entry names the record whose deque it shares instead of holding samples.
ViewSharingHistory(rec) ==
    [type |-> rec.type, mac |-> rec.mac, name |-> rec.name, ssid |-> rec.ssid,
     vendor |-> rec.vendor, rssi |-> rec.rssi, last_seen |-> rec.last_seen,
     history |-> rec.history, shares |-> rec.mac]

\* The dict snapshot builds for one record; history is copied by list().
View(rec) ==
    [type |-> rec.type, mac |-> rec.mac, name |-> rec.name, ssid |-> rec.ssid,
     vendor |-> rec.vendor, rssi |-> rec.rssi, last_seen |-> rec.last_seen,
     history |-> rec.history]

\* sort_key with the device type left out of the key.
SortKeyWithoutType(d) ==
    <<0, IF d.rssi # None THEN d.rssi[1] ELSE NoSignal>>

\* sort_key(d) = (t, -strength)
sort_key(d) ==
    LET t == IF d.type = "wifi" THEN 0 ELSE 1
        rssi == d.rssi
        strength == -(IF rssi # None THEN rssi[1] ELSE NoSignal)
    IN  <<t, -strength>>

\* Python's order on the two-element tuples sort_key returns.
TupleLess(a, b) == a[1] < b[1] \/ (a[1] = b[1] /\ a[2] < b[2])

\* list.sort(key=sort_key): ascending and stable.
RECURSIVE SortByKey(_)
SortByKey(views) ==
    IF views = <<>> THEN <<>>
    ELSE LET n == Len(views)
             d == views[n]
             s == SortByKey(SubSeq(views, 1, n - 1))
             k == Cardinality({i \in 1..Len(s) : ~TupleLess(sort_key(d), sort_key(s[i]))})
         IN  SubSeq(s, 1, k) \o <<d>> \o SubSeq(s, k + 1, Len(s))

\* The list snapshot() returns for the given records.
snapshot(recs) == SortByKey([i \in 1..Len(recs) |-> View(recs[i])])

----------------------------------------------------------------------------
(* Locks *)

\* threading.RLock with every caller let in at once.
NoExclusion(owner, t) == TRUE

\* threading.RLock.acquire succeeds: the lock is free or the caller holds it.
CanAcquire(owner, t) == owner \in {NoThread, t}

----------------------------------------------------------------------------
(* Initial state: the module has been imported and the store constructed *)

\* Everything but the capacity the store is constructed with.
Imported ==
    /\ _mac_lookup \in BOOLEAN
    /\ _vendor_lock = NoThread
    /\ _vendor_cache = EmptyDict
    /\ _lock = NoThread
    /\ _records = <<>>
    /\ now = 0
    /\ pc = [t \in Threads |-> "idle"]
    /\ frame = [t \in Scanners |-> NoFrame]
    /\ out = [t \in Readers |-> <<>>]
    /\ response = [t \in Readers |-> [status |-> "none", devices |-> <<>>]]
    /\ raised = [t \in Scanners |-> "none"]
    /\ nUpdates = 0
    /\ nSnapshots = 0
    /\ accepted = EmptyDict
    /\ lookups = EmptyDict
    /\ created = EmptyDict

\* DeviceStore(history_len=HistoryLen); no direct call of _normalize_mac is made.
Start == Imported /\ _history_len = HistoryLen /\ text = None /\ normal = <<>>

\* The capacities a caller may hand to DeviceStore(history_len=...): __init__
\* stores any of them as given.
Capacities == {-1, 0, HistoryLen}

\* DeviceStore(history_len=n) for any of those capacities, before a brief run.
InitCapacity ==
    run = "brief" /\ Imported /\ _history_len \in Capacities /\ text = None /\ normal = <<>>

Init == run = "mixed" /\ Start

InitStream == run = "stream" /\ Start

InitBrief == run = "brief" /\ Start

\* time.time(): a value not below the one returned last. The clock moves in a
\* streaming run only.
Clock == IF run = "stream" THEN now..MaxTime ELSE {now}

----------------------------------------------------------------------------
(* DeviceStore.update *)

\* The guard of update with the check of the signal forgotten.
DropsOnlyEmptyMac(mac, rssi) == mac = <<>>

\* `not mac or rssi is None`
Dropped(mac, rssi) == mac = <<>> \/ rssi = None

\* A scanner calls update with arguments the guard drops: the call returns at
\* once, before the store lock is asked for.
UpdateDropped(t, dev_type, raw, name, rssi, ssid) ==
    /\ pc[t] = "idle"
    /\ nUpdates < Workload(run, t).calls
    /\ Dropped(Normalized[raw], rssi)
    /\ nUpdates' = nUpdates + 1
    /\ UNCHANGED <<run, text, normal, _mac_lookup, _vendor_lock, _vendor_cache, _lock, _records,
                   _history_len, now, pc, frame, out, response, raised, nSnapshots,
                   accepted, lookups, created>>

\* A scanner calls update with arguments that pass the guard, and asks for the
\* store lock. Lines 64-66 touch nothing shared, so the arguments of the call
\* first matter, and are drawn, when the lock is entered.
UpdateCall(t) ==
    /\ pc[t] = "idle"
    /\ nUpdates < Workload(run, t).calls
    /\ nUpdates' = nUpdates + 1
    /\ pc' = [pc EXCEPT ![t] = "update_lock"]
    /\ UNCHANGED <<run, text, normal, _mac_lookup, _vendor_lock, _vendor_cache, _lock, _records,
                   _history_len, now, frame, out, response, raised, nSnapshots,
                   accepted, lookups, created>>

\* `with self._lock:` is entered and `rec = self._records.get(mac)` read, by a
\* call whose arguments passed the guard.
UpdateAcquire(t, dev_type, raw, name, rssi, ssid) ==
    /\ pc[t] = "update_lock"
    /\ CanAcquire(_lock, t)
    /\ ~Dropped(Normalized[raw], rssi)
    /\ _lock' = t
    /\ LET mac == Normalized[raw]
       IN  frame' = [frame EXCEPT ![t] =
               [dev_type |-> dev_type, mac |-> mac, name |-> name, rssi |-> rssi,
                ssid |-> ssid, raw |-> raw, found |-> HasRecord(_records, mac)]]
    /\ pc' = [pc EXCEPT ![t] = "update_rec"]
    /\ UNCHANGED <<run, text, normal, _mac_lookup, _vendor_lock, _vendor_cache, _records, _history_len,
                   now, out, response, raised, nUpdates, nSnapshots,
                   accepted, lookups, created>>

\* rec.ssid = name or ssid; rec.name = None
WifiFields(rec, name, ssid) == [rec EXCEPT !.ssid = Or(name, ssid), !.name = None]

\* rec.name = name
BleFields(rec, name) == [rec EXCEPT !.name = name]

\* The update call of thread t leaves the `with` block by an exception.
Raise(t, error) ==
    /\ _lock' = NoThread
    /\ pc' = [pc EXCEPT ![t] = "idle"]
    /\ frame' = [frame EXCEPT ![t] = NoFrame]
    /\ raised' = [raised EXCEPT ![t] = error]

\* The record is created when absent (deque(maxlen=...) raises ValueError for a
\* negative capacity), then type, mac and the name fields are written;
\* `rec.vendor or ...` decides whether _vendor_for is called.
UpdateRecord(t, time) ==
    /\ pc[t] = "update_rec"
    /\ LET f == frame[t]
       IN  IF ~f.found /\ _history_len < 0
           THEN /\ Raise(t, "ValueError")
                /\ now' = time
                /\ UNCHANGED <<_records, created>>
           ELSE LET rec0 == IF f.found THEN RecordOf(_records, f.mac)
                            ELSE DeviceRecord(f.dev_type, f.mac, time)
                    rec1 == [rec0 EXCEPT !.type = f.dev_type, !.mac = f.mac]
                    rec2 == IF f.dev_type = "wifi"
                            THEN WifiFields(rec1, f.name, f.ssid)
                            ELSE BleFields(rec1, f.name)
                IN  /\ _records' = PutRecord(_records, f.mac, rec2)
                    /\ created' = IF f.found THEN created
                                  ELSE DictPut(created, f.mac, DictGet(created, f.mac, 0) + 1)
                    /\ now' = IF f.found THEN now ELSE time
                    /\ pc' = [pc EXCEPT ![t] = IF Truthy(rec2.vendor) THEN "update_commit"
                                                ELSE "vendor_lock"]
                    /\ UNCHANGED <<_lock, frame, raised>>
    /\ UNCHANGED <<run, text, normal, _mac_lookup, _vendor_lock, _vendor_cache, _history_len,
                   out, response, nUpdates, nSnapshots, accepted, lookups>>

\* rec.vendor = <value>, for the record the thread is updating
SetVendor(recs, mac, vendor) ==
    PutRecord(recs, mac, [RecordOf(recs, mac) EXCEPT !.vendor = vendor])

\* The cache after a lookup whose failure is not remembered.
CacheSuccessOnly(cache, prefix, vendor) ==
    IF Truthy(vendor) THEN DictPut(cache, prefix, vendor[1]) ELSE cache

\* The cache after a lookup whose failure is remembered without the label.
CacheVendorUnlabelled(cache, prefix, vendor) ==
    DictPut(cache, prefix, IF Truthy(vendor) THEN vendor[1] ELSE "")

\* _vendor_cache[prefix] = vendor or "Unknown"
CacheVendor(cache, prefix, vendor) ==
    DictPut(cache, prefix, Or(vendor, Some("Unknown"))[1])

\* The rest of _vendor_for with _vendor_lock left as it is at the end.
VendorDoneKeepsLock(t, vendor) ==
    LET prefix == VendorKey[frame[t].mac]
        cache == CacheVendor(_vendor_cache, prefix, vendor)
    IN  /\ _vendor_cache' = cache
        /\ _records' = SetVendor(_records, frame[t].mac, Some(cache[prefix]))
        /\ pc' = [pc EXCEPT ![t] = "update_commit"]
        /\ UNCHANGED <<run, text, normal, _mac_lookup, _vendor_lock, _lock, frame, raised,
                       _history_len, now, out, response, nUpdates, nSnapshots,
                       accepted, lookups, created>>

\* The rest of _vendor_for once `vendor` is known (None when there is no
\* backend or its call raised): the cache is written and _vendor_cache[prefix]
\* returned into rec.vendor; the read of a key the cache does not hold raises
\* KeyError out of update. Either way the vendor lock is released.
VendorDone(t, vendor) ==
    LET prefix == VendorKey[frame[t].mac]
        cache == CacheVendor(_vendor_cache, prefix, vendor)
    IN  /\ _vendor_cache' = cache
        /\ _vendor_lock' = NoThread
        /\ IF prefix \in DOMAIN cache
           THEN /\ _records' = SetVendor(_records, frame[t].mac, Some(cache[prefix]))
                /\ pc' = [pc EXCEPT ![t] = "update_commit"]
                /\ UNCHANGED <<_lock, frame, raised>>
           ELSE /\ Raise(t, "KeyError")
                /\ UNCHANGED _records
        /\ UNCHANGED <<run, text, normal, _mac_lookup, _history_len, now, out, response,
                       nUpdates, nSnapshots, accepted, lookups, created>>

\* _vendor_for up to the backend call: the address is normalized, the prefix cut,
\* _vendor_lock taken and the cache read. A hit, or an absent backend, ends the
\* call here; otherwise _mac_lookup.lookup(mac) is issued with the lock held.
VendorAcquire(t) ==
    /\ pc[t] = "vendor_lock"
    /\ LET mac == VendorMac[frame[t].mac]
           prefix == VendorKey[frame[t].mac]
       IN  IF mac = <<>>
           THEN /\ _records' = SetVendor(_records, frame[t].mac, None)
                /\ pc' = [pc EXCEPT ![t] = "update_commit"]
                /\ UNCHANGED <<run, text, normal, _mac_lookup, _vendor_lock, _vendor_cache, _lock,
                               _history_len, now, frame, out, response, raised,
                               nUpdates, nSnapshots, accepted, lookups, created>>
           ELSE /\ CanAcquire(_vendor_lock, t)
                /\ IF prefix \in DOMAIN _vendor_cache
                   THEN /\ _records' = SetVendor(_records, frame[t].mac,
                                                 Some(_vendor_cache[prefix]))
                        /\ pc' = [pc EXCEPT ![t] = "update_commit"]
                        /\ UNCHANGED <<run, text, normal, _mac_lookup, _vendor_lock, _vendor_cache,
                                       _lock, _history_len, now, frame, out, response,
                                       raised, nUpdates, nSnapshots, accepted, lookups,
                                       created>>
                   ELSE IF ~_mac_lookup
                   THEN VendorDone(t, None)
                   ELSE /\ _vendor_lock' = t
                        /\ lookups' = DictPut(lookups, prefix, DictGet(lookups, prefix, 0) + 1)
                        /\ pc' = [pc EXCEPT ![t] = "vendor_lookup"]
                        /\ UNCHANGED <<run, text, normal, _mac_lookup, _vendor_cache, _lock, _records,
                                       _history_len, now, frame, out, response, raised,
                                       nUpdates, nSnapshots, accepted, created>>

\* _mac_lookup.lookup(mac) returns a vendor name.
LookupReturns(t, v) ==
    /\ pc[t] = "vendor_lookup"
    /\ VendorDone(t, Some(v))

\* _mac_lookup.lookup(mac) raises: `except Exception: vendor = None`.
LookupRaises(t) ==
    /\ pc[t] = "vendor_lookup"
    /\ VendorDone(t, None)

\* rec.rssi, rec.last_seen and rec.history are written and the `with` block is
\* left. int(None) raises TypeError, which leaves the block as well.
UpdateCommit(t, time) ==
    /\ pc[t] = "update_commit"
    /\ LET f == frame[t]
       IN  IF f.rssi = None
           THEN /\ Raise(t, "TypeError")
                /\ UNCHANGED <<_records, accepted, now>>
           ELSE LET v == IntOf(f.rssi[1])
                    rec == RecordOf(_records, f.mac)
                IN  /\ _records' = PutRecord(_records, f.mac,
                           [rec EXCEPT !.rssi = Some(v), !.last_seen = time,
                                       !.history = DequeAppend(@, v, _history_len)])
                    /\ accepted' = DictPut(accepted, f.mac,
                                           Append(DictGet(accepted, f.mac, <<>>), v))
                    /\ now' = time
                    /\ _lock' = NoThread
                    /\ pc' = [pc EXCEPT ![t] = "idle"]
                    /\ frame' = [frame EXCEPT ![t] = NoFrame]
                    /\ UNCHANGED raised
    /\ UNCHANGED <<run, text, normal, _mac_lookup, _vendor_lock, _vendor_cache, _history_len, out,
                   response, nUpdates, nSnapshots, lookups, created>>

----------------------------------------------------------------------------
(* app.py: api_devices *)

\* A request for /api/devices arrives: api_devices calls store.snapshot().
ApiDevices(t) ==
    /\ pc[t] = "idle"
    /\ nSnapshots < MaxSnapshots
    /\ nSnapshots' = nSnapshots + 1
    /\ pc' = [pc EXCEPT ![t] = "snapshot_lock"]
    /\ UNCHANGED <<run, text, normal, _mac_lookup, _vendor_lock, _vendor_cache, _lock, _records,
                   _history_len, now, frame, out, response, raised, nUpdates,
                   accepted, lookups, created>>

\* DeviceStore.snapshot: under the store lock the records are copied and sorted.
Snapshot(t) ==
    /\ pc[t] = "snapshot_lock"
    /\ CanAcquire(_lock, t)
    /\ out' = [out EXCEPT ![t] = snapshot(_records)]
    /\ pc' = [pc EXCEPT ![t] = "api_build"]
    /\ UNCHANGED <<run, text, normal, _mac_lookup, _vendor_lock, _vendor_cache, _lock, _records,
                   _history_len, now, frame, response, raised, nUpdates, nSnapshots,
                   accepted, lookups, created>>

\* One entry of the JSON payload.
ApiEntry(d) ==
    [type |-> d.type,
     name |-> Or(Or(d.name, d.ssid), Some("(unknown)")),
     mac |-> d.mac,
     vendor |-> Or(d.vendor, Some("Unknown")),
     first_seen |-> d.first_seen,
     last_seen |-> d.last_seen,
     signal_dbm |-> d.rssi,
     history |-> d.history]

\* A view api_devices can turn into a payload entry: d["first_seen"] and
\* d["last_seen"] are subscripted, the other keys read with d.get or present.
Readable(d) == {"type", "mac", "first_seen", "last_seen"} \subseteq DOMAIN d

\* The loop of api_devices: a subscript of a missing key raises KeyError, which
\* Flask turns into a failed request. The local `snapshot` dies with the call.
ApiBuild(t) ==
    /\ pc[t] = "api_build"
    /\ response' = [response EXCEPT ![t] =
           IF \A i \in 1..Len(out[t]) : Readable(out[t][i])
           THEN [status |-> "ok", devices |-> [i \in 1..Len(out[t]) |-> ApiEntry(out[t][i])]]
           ELSE [status |-> "KeyError", devices |-> <<>>]]
    /\ out' = [out EXCEPT ![t] = <<>>]
    /\ pc' = [pc EXCEPT ![t] = "idle"]
    /\ UNCHANGED <<run, text, normal, _mac_lookup, _vendor_lock, _vendor_cache, _lock, _records,
                   _history_len, now, frame, raised, nUpdates, nSnapshots,
                   accepted, lookups, created>>

----------------------------------------------------------------------------
(* Specification *)

Next ==
    \/ \E t \in Scanners :
           \E raw \in Workload(run, t).raws, name \in Workload(run, t).names,
              rssi \in Workload(run, t).signals, ssid \in Workload(run, t).ssids :
               UpdateDropped(t, CallSiteType(t), raw, name, rssi, ssid)
    \/ \E t \in Scanners : UpdateCall(t)
    \/ \E t \in Scanners :
           \E raw \in Workload(run, t).raws, name \in Workload(run, t).names,
              rssi \in Workload(run, t).signals, ssid \in Workload(run, t).ssids :
               UpdateAcquire(t, CallSiteType(t), raw, name, rssi, ssid)
    \/ \E t \in Scanners, time \in Clock : UpdateRecord(t, time)
    \/ \E t \in Scanners : VendorAcquire(t)
    \/ \E t \in Scanners, v \in Vendors : LookupReturns(t, v)
    \/ \E t \in Scanners : LookupRaises(t)
    \/ \E t \in Scanners, time \in Clock : UpdateCommit(t, time)
    \/ \E t \in Readers : ApiDevices(t)
    \/ \E t \in Readers : Snapshot(t)
    \/ \E t \in Readers : ApiBuild(t)

Spec == Init /\ [][Next]_vars

StreamSpec == InitStream /\ [][Next]_vars

CapacitySpec == InitCapacity /\ [][Next]_vars

----------------------------------------------------------------------------
(* _normalize_mac called on its own *)

\* Number of times _normalize_mac is applied in a row to one text.
MaxApply == 2

\* Two-character groups an address text is spelled with: lower-case hex,
\* mixed-case hex, and one with a letter that is no hex digit.
Octets == {<<"a", "a">>, <<"1", "B">>, <<"g", "0">>}

\* What stands between the groups: nothing, a colon, a hyphen.
Separators == {<<>>, <<":">>, <<"-">>}

\* Whitespace before and after the text.
Paddings == {<< <<>>, <<>> >>, << <<" ">>, <<" ">> >>, << <<"\t", " ">>, <<>> >>}

\* The groups written one after the other with the separator between them.
RECURSIVE Spell(_, _)
Spell(octs, sep) ==
    IF Len(octs) = 1 THEN octs[1]
    ELSE octs[1] \o sep \o Spell(Tail(octs), sep)

\* The texts handed to _normalize_mac: None, "", and five or six groups in
\* every spelling.
Texts ==
    {None, Some(<<>>)} \cup
    UNION {{Some(p[1] \o Spell(octs, sep) \o p[2]) :
               octs \in [1..n -> Octets], sep \in Separators, p \in Paddings} :
           n \in {5, 6}}

InitNormalize ==
    /\ run = "normalize"
    /\ Imported
    /\ _history_len = HistoryLen
    /\ text \in Texts
    /\ normal = <<>>

\* _normalize_mac is called: first on the text, then on what it returned last.
Normalize ==
    /\ run = "normalize"
    /\ Len(normal) < MaxApply
    /\ normal' = Append(normal, _normalize_mac(IF normal = <<>> THEN text
                                                ELSE Some(normal[Len(normal)])))
    /\ UNCHANGED <<run, text, _mac_lookup, _vendor_lock, _vendor_cache, _lock, _records,
                   _history_len, now, pc, frame, out, response, raised, nUpdates,
                   nSnapshots, accepted, lookups, created>>

NormalizeSpec == InitNormalize /\ [][Normalize]_vars

\* What the scheduler guarantees: a thread that can take its next step of a call
\* in progress takes it. Nothing obliges a caller to call, and nothing obliges
\* the vendor backend to answer.
ThreadsRun ==
    /\ \A t \in Scanners :
           /\ WF_vars(\E raw \in Workload(run, t).raws, name \in Workload(run, t).names,
                         rssi \in Workload(run, t).signals, ssid \in Workload(run, t).ssids :
                          UpdateAcquire(t, CallSiteType(t), raw, name, rssi, ssid))
           /\ WF_vars(\E time \in Clock : UpdateRecord(t, time))
           /\ WF_vars(VendorAcquire(t))
           /\ WF_vars(\E time \in Clock : UpdateCommit(t, time))
    /\ \A t \in Readers : WF_vars(Snapshot(t)) /\ WF_vars(ApiBuild(t))

\* A brief run under that scheduler, with a backend that may never answer.
StallSpec == InitBrief /\ [][Next]_vars /\ ThreadsRun

\* Every call of _mac_lookup.lookup returns or raises.
BackendAnswers ==
    \A t \in Scanners : WF_vars((\E v \in Vendors : LookupReturns(t, v)) \/ LookupRaises(t))

\* A brief run under that scheduler, with a backend that always answers.
FairSpec == InitBrief /\ [][Next]_vars /\ ThreadsRun /\ BackendAnswers

----------------------------------------------------------------------------
(* Definitions shared by the properties *)

\* A scanner thread is between entering and leaving `with self._lock:`.
InStore(t) == pc[t] \in {"update_rec", "vendor_lock", "vendor_lookup", "update_commit"}

\* A thread is inside _vendor_for: waiting for _vendor_lock or in the backend call.
InVendorFor(t) == pc[t] \in {"vendor_lock", "vendor_lookup"}

\* The last n elements of a sequence, all of it when it is shorter.
LastN(seq, n) == IF Len(seq) <= n THEN seq ELSE SubSeq(seq, Len(seq) - n + 1, Len(seq))

\* The samples appended so far for an address.
Samples(mac) == DictGet(accepted, mac, <<>>)

\* The text "AA:BB:CC" of the vendor prefix shared by the devices of the model.
PrefixText == <<"A", "A", ":", "B", "B", ":", "C", "C">>

----------------------------------------------------------------------------
(* C1 *)

\* C1: in every sequence snapshot() returned, within each device type the
\* signal never increases along the sequence (strongest first), and views
\* without a signal come last in their type group.
C1_StrongestFirst ==
    \A t \in Readers : \A i, j \in 1..Len(out[t]) :
        (i < j /\ out[t][i].type = out[t][j].type) =>
            /\ out[t][i].rssi = None => out[t][j].rssi = None
            /\ (out[t][i].rssi # None /\ out[t][j].rssi # None) =>
                   out[t][i].rssi[1] >= out[t][j].rssi[1]

----------------------------------------------------------------------------
(* C2 *)

\* C2: no thread is inside _vendor_for, or in the backend lookup it issues,
\* while that thread holds DeviceStore._lock.
C2_NoVendorForUnderStoreLock ==
    \A t \in Scanners : InVendorFor(t) => _lock # t

----------------------------------------------------------------------------
(* C3 *)

\* C3: every record's history is no longer than the capacity and is the most
\* recent `capacity` samples accepted for its address, oldest first.
C3_HistoryIsLastSamples ==
    \A i \in 1..Len(_records) :
        /\ Len(_records[i].history) <= _history_len
        /\ _records[i].history = LastN(Samples(_records[i].mac), _history_len)

\* A record that has seen more samples than its capacity and whose kept
\* samples differ, so that their order shows.
C3_Evicted ==
    \E i \in 1..Len(_records) :
        /\ Len(Samples(_records[i].mac)) > _history_len
        /\ Len(_records[i].history) = 2
        /\ _records[i].history[1] # _records[i].history[2]

----------------------------------------------------------------------------
(* C4 *)

\* The spellings of the address AA:BB:CC:11:22:33 among the raw addresses.
SpellingsOfMacColon == {Some(MacColon), Some(MacPlain), Some(MacHyphen)}

\* C4: update calls whose raw addresses are spellings of one address all work
\* on the one record keyed by its canonical string: whatever the interleaving,
\* no second DeviceRecord is constructed for it and no key occurs twice.
C4_OneRecordPerAddress ==
    /\ \A t \in Scanners :
           (InStore(t) /\ frame[t].raw \in SpellingsOfMacColon) => frame[t].mac = MacColon
    /\ \A i \in 1..Len(_records) : _records[i].mac \in {MacColon, MacOther}
    /\ \A i, j \in 1..Len(_records) : _records[i].mac = _records[j].mac => i = j
    /\ \A mac \in DOMAIN created : created[mac] = 1
    /\ \A mac \in DOMAIN accepted : HasRecord(_records, mac)

\* An update spelled "aabbcc112233" has found the record that an earlier
\* update of the same address created, and is about to write its sample.
C4_SpellingFoundRecord ==
    \E t \in Scanners :
        /\ pc[t] = "update_commit"
        /\ frame[t].raw = Some(MacPlain)
        /\ frame[t].found
        /\ Len(Samples(MacColon)) = 1
        /\ Len(_records) = 1

----------------------------------------------------------------------------
(* C5 *)

\* An address that is null, empty or whitespace-only.
Blank(raw) == raw = None \/ \A i \in 1..Len(raw[1]) : raw[1][i] \in Whitespace

\* The argument lists, among those the callers of the model pass, with a blank
\* address or with a null signal.
MalformedCalls ==
    ({raw \in RawMacs : Blank(raw)} \X Names \X Signals \X Ssids)
        \cup (RawMacs \X Names \X {None} \X Ssids)

\* C5: an update call with a malformed address or a null signal returns with
\* the records, their histories and the vendor cache as they were, and never
\* goes on into the store.
C5_MalformedLeavesStoreAlone ==
    [][\A t \in Scanners :
           /\ (\E c \in MalformedCalls :
                   UpdateDropped(t, CallSiteType(t), c[1], c[2], c[3], c[4])) =>
                  UNCHANGED <<_records, _vendor_cache, _lock, _vendor_lock,
                              accepted, lookups, created>>
           /\ \A c \in MalformedCalls :
                  ~UpdateAcquire(t, CallSiteType(t), c[1], c[2], c[3], c[4])]_vars

\* Two calls have been made and have returned; one stored its sample and the
\* other was dropped, leaving the single record with its single sample.
C5_DroppedBesideStored ==
    /\ nUpdates = 2
    /\ \A t \in Scanners : pc[t] = "idle"
    /\ Len(_records) = 1
    /\ Len(Samples(_records[1].mac)) = 1
    /\ _records[1].history = Samples(_records[1].mac)

----------------------------------------------------------------------------
(* C6 *)

\* C6: the backend lookup is issued at most once per three-octet prefix,
\* whether it returned a name or failed.
C6_LookupOncePerPrefix ==
    \A prefix \in DOMAIN lookups : lookups[prefix] <= 1

\* Two devices of one prefix are stored, the one lookup issued for the prefix
\* failed, and both records carry the cached "Unknown".
C6_FailureServedFromCache ==
    /\ _mac_lookup
    /\ Len(_records) = 2
    /\ \A i \in 1..Len(_records) :
           _records[i].vendor = Some("Unknown") /\ _records[i].rssi # None
    /\ PrefixText \in DOMAIN lookups
    /\ lookups[PrefixText] = 1

----------------------------------------------------------------------------
(* C7 *)

\* A view as a completed update leaves its record: signal and vendor set, the
\* signal the newest sample of the history, no BLE name on a wifi view.
WholeView(d) ==
    /\ d.rssi # None
    /\ d.vendor # None
    /\ _history_len > 0 => (d.history # <<>> /\ d.history[Len(d.history)] = d.rssi[1])
    /\ d.type = "wifi" => d.name = None

\* C7: snapshot copies the records only while no update is between its first
\* and its last write, so every view it returns is a whole one.
C7_SnapshotSeesWholeUpdates ==
    /\ [](\A t \in Readers : \A i \in 1..Len(out[t]) : WholeView(out[t][i]))
    /\ [][\A t \in Readers : Snapshot(t) => \A u \in Scanners : ~InStore(u)]_vars

\* A snapshot with a view in it was taken while an update call of another
\* thread was in progress.
C7_SnapshotDuringUpdateCall ==
    \E t \in Readers, u \in Scanners :
        /\ pc[t] = "api_build"
        /\ Len(out[t]) >= 1
        /\ pc[u] = "update_lock"

----------------------------------------------------------------------------
(* C8 *)

\* C8: every record carries a first_seen timestamp, not later than last_seen,
\* and every view snapshot returns has it, so that api_devices can read it.
C8_FirstSeenCarried ==
    /\ \A i \in 1..Len(_records) :
           /\ "first_seen" \in DOMAIN _records[i]
           /\ _records[i].first_seen <= _records[i].last_seen
    /\ \A t \in Readers : \A i \in 1..Len(out[t]) : "first_seen" \in DOMAIN out[t][i]
    /\ \A t \in Readers : response[t].status # "KeyError"

----------------------------------------------------------------------------
(* C9 *)

\* C9: no record has both an SSID and a BLE name.
C9_SsidAndNameExclusive ==
    \A i \in 1..Len(_records) : ~(_records[i].ssid # None /\ _records[i].name # None)

----------------------------------------------------------------------------
(* C10 *)

\* C10: a snapshot call returns, whatever the vendor backend does.
C10_SnapshotReturns ==
    \A t \in Readers : (pc[t] = "snapshot_lock") ~> (pc[t] = "api_build")

----------------------------------------------------------------------------
(* C11 *)

\* What the holder of a view reads in it now: the fields as copied, and for a
\* history that is the deque of a record of the store, that deque as it is now.
ReadView(d) ==
    IF "shares" \in DOMAIN d
    THEN [d EXCEPT !.history = RecordOf(_records, d.shares).history]
    ELSE d

\* C11: as long as a reader holds the sequence snapshot() returned, no step of
\* the program, update calls on the same addresses included, changes what it
\* reads in any field or history of it.
C11_SnapshotIsValueCopy ==
    [][\A t \in Readers :
           (pc[t] = "api_build" /\ pc'[t] = "api_build") =>
               /\ Len(out'[t]) = Len(out[t])
               /\ \A i \in 1..Len(out[t]) : ReadView(out[t][i])' = ReadView(out[t][i])]_vars

\* A reader holds a view of a record to whose history an update has appended
\* since: the view has the one sample, the record has two.
C11_UpdatedAfterSnapshot ==
    \E t \in Readers : \E i \in 1..Len(out[t]) :
        /\ pc[t] = "api_build"
        /\ Len(out[t][i].history) = 1
        /\ Len(RecordOf(_records, out[t][i].mac).history) = 2

----------------------------------------------------------------------------
(* C12 *)

\* C12: once a store has been constructed, whatever capacity it was given, no
\* update call raises an error to its caller because of that capacity.
C12_NoCapacityErrorAtIngestion ==
    \A t \in Scanners : raised[t] # "ValueError"

----------------------------------------------------------------------------
(* C13 *)

\* A step in which the resolution thread t asked for ends without a vendor name:
\* the backend is absent, or its lookup raises.
ResolutionFails(t) == (~_mac_lookup /\ VendorAcquire(t)) \/ LookupRaises(t)

\* C13: when the backend is absent or its lookup fails, no error reaches the
\* caller of update: the record gets the vendor "Unknown", the call goes on
\* with the store lock to its last writes, and these store the signal, the
\* time and the sample, after which the call has returned.
C13_DegradesToUnknown ==
    /\ [](\A t \in Scanners : raised[t] = "none")
    /\ [](~_mac_lookup =>
             \A i \in 1..Len(_records) : _records[i].vendor \in {None, Some("Unknown")})
    /\ [][\A t \in Scanners :
             ResolutionFails(t) =>
                 /\ pc'[t] = "update_commit"
                 /\ _lock' = t
                 /\ frame'[t] = frame[t]
                 /\ RecordOf(_records', frame[t].mac).vendor = Some("Unknown")]_vars
    /\ [][\A t \in Scanners :
             (pc[t] = "update_commit" /\ pc'[t] # "update_commit") =>
                 LET rec == RecordOf(_records', frame[t].mac)
                     v == IntOf(frame[t].rssi[1])
                 IN  /\ pc'[t] = "idle"
                     /\ _lock' = NoThread
                     /\ rec.vendor # None
                     /\ rec.rssi = Some(v)
                     /\ rec.last_seen = now'
                     /\ rec.history = DequeAppend(RecordOf(_records, frame[t].mac).history,
                                                  v, _history_len)]_vars

\* Without a backend an update has completed: its record is labelled "Unknown"
\* and carries the signal and the sample, and every thread is back from its call.
C13_StoredWithoutBackend ==
    /\ ~_mac_lookup
    /\ \A t \in Scanners : pc[t] = "idle"
    /\ Len(_records) = 1
    /\ _records[1].vendor = Some("Unknown")
    /\ _records[1].rssi # None
    /\ _records[1].history = <<_records[1].rssi[1]>>

----------------------------------------------------------------------------
(* C14 *)

\* C14: normalizing twice gives what normalizing once gives, for every text.
C14_NormalizeIdempotent ==
    \A k \in 2..Len(normal) : normal[k] = normal[1]

\* A padded twelve-character text without separators has been normalized
\* twice: the first pass stripped it and inserted the colons.
C14_PaddedPlainTwice ==
    /\ Len(normal) = 2
    /\ text # None
    /\ Len(text[1]) = 14
    /\ Len(normal[1]) = 17

----------------------------------------------------------------------------
(* C15 *)

\* C15: in every sequence snapshot() returned, no BLE view stands before a
\* Wi-Fi view.
C15_WifiBeforeBle ==
    \A t \in Readers : \A i, j \in 1..Len(out[t]) :
        i < j => ~(out[t][i].type = "ble" /\ out[t][j].type = "wifi")

\* A snapshot of two records, taken of a store whose BLE record was created
\* first and has the weaker signal.
C15_BleRecordOlder ==
    \E t \in Readers :
        /\ Len(out[t]) = 2
        /\ Len(_records) = 2
        /\ _records[1].type = "ble"
        /\ _records[2].type = "wifi"
        /\ _records[1].rssi # None /\ _records[2].rssi # None
        /\ _records[1].rssi[1] < _records[2].rssi[1]

----------------------------------------------------------------------------
(* C16 *)

\* v is the integer value of the signal x10 (in tenths): the whole number next
\* to it on the side of zero.
IntegerValue(x10, v) ==
    IF x10 >= 0 THEN 10 * v <= x10 /\ x10 < 10 * (v + 1)
    ELSE 10 * v >= x10 /\ x10 > 10 * (v - 1)

\* No update call is at work on the record of this address.
Settled(mac) == \A t \in Scanners : InStore(t) => frame[t].mac # mac

\* C16: every record no update is at work on has a signal, the one the last
\* accepted update for its address stored, and what an update stores is the
\* integer value of the observation it was called with.
C16_SignalIsLastObservation ==
    /\ [](\A i \in 1..Len(_records) :
             Settled(_records[i].mac) =>
                 /\ _records[i].rssi # None
                 /\ Samples(_records[i].mac) # <<>>
                 /\ _records[i].rssi[1] =
                        Samples(_records[i].mac)[Len(Samples(_records[i].mac))])
    /\ [][\A t \in Scanners :
             (pc[t] = "update_commit" /\ pc'[t] = "idle") =>
                 /\ RecordOf(_records', frame[t].mac).rssi # None
                 /\ IntegerValue(frame[t].rssi[1],
                                 RecordOf(_records', frame[t].mac).rssi[1])]_vars

\* A record has taken two observations, the later one -45.5 dBm, and is at rest
\* with the signal -45.
C16_FractionStored ==
    \E i \in 1..Len(_records) :
        /\ Settled(_records[i].mac)
        /\ Len(Samples(_records[i].mac)) = 2
        /\ _records[i].rssi = Some(-45)

----------------------------------------------------------------------------
(* C17 *)

\* C17: once a wifi update has written the name fields, the record's SSID is
\* the ssid argument when it was given, and the name argument only otherwise.
C17_SsidArgumentPreferred ==
    \A t \in Scanners :
        (pc[t] \in {"vendor_lock", "vendor_lookup", "update_commit"}
             /\ frame[t].dev_type = "wifi") =>
            RecordOf(_records, frame[t].mac).ssid = Or(frame[t].ssid, frame[t].name)

----------------------------------------------------------------------------
(* C18 *)

\* The hexadecimal digits of an upper-cased text.
HexDigits == {"0", "1", "2", "3", "4", "5", "6", "7", "8", "9",
              "A", "B", "C", "D", "E", "F"}

\* C18: the normalizer returns the trimmed, upper-cased, hyphen-replaced text,
\* with colons inserted every two characters only when that text has no colon
\* and is exactly twelve hexadecimal digits.
C18_ColonsOnlyIntoTwelveHex ==
    Len(normal) >= 1 =>
        LET m == Replace(Upper(Strip(IF text = None THEN <<>> ELSE text[1])), "-", ":")
        IN  normal[1] = IF /\ ~Contains(m, ":")
                           /\ Len(m) = 12
                           /\ \A i \in 1..Len(m) : m[i] \in HexDigits
                        THEN Join(Pairs(m), ":")
                        ELSE m

----------------------------------------------------------------------------
(* C19 *)

\* C19: no thread takes the store lock while it holds the vendor lock, and,
\* the backend answering every lookup, every call a thread is in comes to its
\* end with the thread holding neither lock.
C19_EveryCallCompletes ==
    /\ [][\A t \in Threads : (_lock' = t /\ _lock # t) => _vendor_lock # t]_vars
    /\ \A t \in Threads :
           (pc[t] # "idle") ~> (pc[t] = "idle" /\ _lock # t /\ _vendor_lock # t)

\* One scanner is in the backend lookup holding both locks while the other
\* scanner and the reader wait for the store lock.
C19_BothLocksHeldOthersWaiting ==
    \E t, u \in Scanners : \E r \in Readers :
        /\ pc[t] = "vendor_lookup" /\ _lock = t /\ _vendor_lock = t
        /\ pc[u] = "update_lock"
        /\ pc[r] = "snapshot_lock"

====
